---- MODULE Spec2Model ----
(***************************************************************************)
(* Model of ricks_arduino.cpp: an ESP8266 sketch that subscribes to one    *)
(* MQTT topic and toggles a servo latch between two positions whenever a   *)
(* trigger phrase arrives.                                                 *)
(*                                                                         *)
(* The sketch is one thread of control.  pc is its position; every action  *)
(* named after a function is one step of that function.  The broker, the   *)
(* WiFi access point and the publishers are the environment.               *)
(*                                                                         *)
(* Text is modelled as a sequence of one-character strings, so that        *)
(* lengths, prefixes and per-character case folding are computed.          *)
(***************************************************************************)
EXTENDS Integers, Sequences, FiniteSets, TLC

VARIABLES
    pc,               \* position of the single thread of control
    ret,              \* where the running moveServo call returns to
    isServoOpen,      \* global isServoOpen
    servoPos,         \* myServo: the last position written (what read() returns)
    currentPosition,  \* moveServo local
    targetPosition,   \* moveServo parameter
    pos,              \* moveServo loop variable
    wifi,             \* WiFi link: "idle", "connecting", "up"
    connected,        \* client.connected(): the broker session is up
    subscribed,       \* topic filters of the current broker session
    msg,              \* topic and payload handed to the running callback
    messageTemp,      \* callback local: the payload copied into a String
    writes,           \* history: positions written by the current moveServo call
    elapsed,          \* history: time spent in delay() by the current moveServo call
    cb,               \* history: what the current callback invocation did
    prev,             \* history: the previous matching command, if any
    unrouted,         \* history: the publish the broker last kept from this session
    rc                \* history: what the current reconnect invocation did

vars == << pc, ret, isServoOpen, servoPos, currentPosition, targetPosition, pos,
           wifi, connected, subscribed, msg, messageTemp,
           writes, elapsed, cb, prev, unrouted, rc >>

----------------------------------------------------------------------------
(* Bounds of the model *)

\* Largest angle the moveServo harness (SweepSpec) starts from or aims at.
MaxAngle == 5

\* The failed-connect counter of the reconnect history saturates here; the
\* retry loop itself is never cut off.
MaxFailures == 3

----------------------------------------------------------------------------
(* Program constants *)

servoOpenPosition == 140
servoClosePosition == 30
StepDelay == 20
WifiPollDelay == 500
ReconnectDelay == 5000
NoPosition == -1

mqtt_topic == "home/device_commands"
OtherTopic == "home/other"
Topics == {mqtt_topic, OtherTopic}

----------------------------------------------------------------------------
(* Text *)

Upper == << "A","B","C","D","E","F","G","H","I","J","K","L","M",
            "N","O","P","Q","R","S","T","U","V","W","X","Y","Z" >>
Lower == << "a","b","c","d","e","f","g","h","i","j","k","l","m",
            "n","o","p","q","r","s","t","u","v","w","x","y","z" >>

tolower(c) ==
    IF \E i \in 1..Len(Upper) : Upper[i] = c
    THEN Lower[CHOOSE i \in 1..Len(Upper) : Upper[i] = c]
    ELSE c

toupper(c) ==
    IF \E i \in 1..Len(Lower) : Lower[i] = c
    THEN Upper[CHOOSE i \in 1..Len(Lower) : Lower[i] = c]
    ELSE c

\* String::equalsIgnoreCase with the case folding left out (String::equals).
equalsCaseSensitive(s1, s2) ==
    /\ Len(s1) = Len(s2)
    /\ \A i \in 1..Len(s1) : s1[i] = s2[i]

\* String::equalsIgnoreCase with the length test left out: s2 is matched
\* as a prefix of s1 (String::startsWith, folded).
startsWithIgnoreCase(s1, s2) ==
    /\ Len(s1) >= Len(s2)
    /\ \A i \in 1..Len(s2) : tolower(s1[i]) = tolower(s2[i])

\* String::equalsIgnoreCase: same length and equal character by character
\* after tolower on both sides.
equalsIgnoreCase(s1, s2) ==
    /\ Len(s1) = Len(s2)
    /\ \A i \in 1..Len(s1) : tolower(s1[i]) = tolower(s2[i])

Phrase1 == << "h","a","l","l","o","w","e","e","n"," ","1" >>
Phrase2 == << "h","a","l","l","o","w","e","e","n","1"," ",
              "a","c","t","i","v","a","t","e","d" >>
Phrase3 == << "a","c","t","i","v","a","t","e"," ",
              "h","a","l","l","o","w","e","e","n"," ","1" >>

\* The condition of callback: the payload is one of the three phrases.
IsCommand(s) ==
    \/ equalsIgnoreCase(s, Phrase1)
    \/ equalsIgnoreCase(s, Phrase2)
    \/ equalsIgnoreCase(s, Phrase3)

----------------------------------------------------------------------------
(* Payloads the publishers send *)

TriggerPhrases == {Phrase1, Phrase2, Phrase3}

\* s with the characters at the positions in mask put in upper case.
WithCase(s, mask) ==
    [i \in 1..Len(s) |-> IF i \in mask THEN toupper(s[i]) ELSE s[i]]

MaxPhraseLen == Len(Phrase2)

CaseMasks ==
    { {},                                           \* halloween 1
      1..MaxPhraseLen,                              \* HALLOWEEN 1
      {i \in 1..MaxPhraseLen : i % 2 = 1},          \* HaLlOwEeN 1
      {i \in 1..MaxPhraseLen : i % 2 = 0},          \* hAlLoWeEn 1
      {1, 10} }                                     \* Activate Halloween 1

MatchingPayloads ==
    { WithCase(p, m) : p \in TriggerPhrases, m \in CaseMasks }

Halloween2 == << "h","a","l","l","o","w","e","e","n"," ","2" >>

OtherPayloads ==
    { << >>, Halloween2, WithCase(Halloween2, 1..MaxPhraseLen) }
    \cup { SubSeq(p, 1, Len(p) - 1) : p \in TriggerPhrases }         \* strict prefixes
    \cup { SubSeq(p, 2, Len(p)) : p \in TriggerPhrases }             \* strict suffixes
    \cup { p \o << " " >> : p \in TriggerPhrases }                   \* extensions
    \cup { << "x" >> \o WithCase(p, {2}) : p \in TriggerPhrases }

Payloads == MatchingPayloads \cup OtherPayloads

----------------------------------------------------------------------------
(* Broker *)

\* The broker routes a publish on topic t to a session holding filter f.
Matches(f, t) == f = t \/ f = "#"

Routed(t) == \E f \in subscribed : Matches(f, t)

\* A subscription to every topic instead of the configured one.
SubscribeWildcard == "#"

\* The argument of client.subscribe in reconnect.
SubscribeFilter == mqtt_topic

----------------------------------------------------------------------------
(* History records *)

NoCallback == [active |-> FALSE, startOpen |-> FALSE, flips |-> 0,
               targets |-> << >>, writes |-> << >>]

NoReconnect == [active |-> FALSE, last |-> "none", failures |-> 0,
                waits |-> 0, waited |-> 0, subs |-> 0, connects |-> 0]

NoMessage == [topic |-> "", payload |-> << >>]

Min(a, b) == IF a < b THEN a ELSE b

----------------------------------------------------------------------------
(* Initial state: the globals as constructed, before setup() runs *)

Init ==
    /\ pc = "setup"
    /\ ret = "none"
    /\ isServoOpen = FALSE
    /\ servoPos = NoPosition
    /\ currentPosition = NoPosition
    /\ targetPosition = NoPosition
    /\ pos = NoPosition
    /\ wifi = "idle"
    /\ connected = FALSE
    /\ subscribed = {}
    /\ msg = NoMessage
    /\ messageTemp = << >>
    /\ writes = << >>
    /\ elapsed = 0
    /\ cb = NoCallback
    /\ prev = << >>
    /\ unrouted = << >>
    /\ rc = NoReconnect

----------------------------------------------------------------------------
(* Servo driver: moveServo *)

\* The upward loop stopping one short of the target (pos < targetPosition).
UpContinuesStrict(p, t) == p < t

\* The upward loop running one past the target (pos <= targetPosition + 1).
UpContinuesOvershoot(p, t) == p <= t + 1

\* Loop condition of the upward sweep.
UpContinues(p, t) == p <= t

\* The downward loop stopping one short of the target (pos > targetPosition).
DownContinuesStrict(p, t) == p > t

\* Loop condition of the downward sweep.
DownContinues(p, t) == p >= t

\* myServo.write(p) followed by delay(20), inside a moveServo loop.
WriteAndDelay(p) ==
    /\ servoPos' = p
    /\ writes' = Append(writes, p)
    /\ elapsed' = elapsed + StepDelay
    /\ cb' = IF cb.active THEN [cb EXCEPT !.writes = Append(@, p)] ELSE cb

\* Entry of moveServo: read the servo and choose the direction.
MoveServo_Read ==
    /\ pc = "ms_read"
    /\ currentPosition' = servoPos
    /\ pos' = servoPos
    /\ pc' = IF servoPos < targetPosition THEN "ms_up" ELSE "ms_down"
    /\ writes' = << >>
    /\ elapsed' = 0
    /\ UNCHANGED << ret, isServoOpen, servoPos, targetPosition, wifi, connected,
                    subscribed, msg, messageTemp, cb, prev, rc >>
    /\ UNCHANGED unrouted

\* One iteration of the upward loop, or its exit and the return.
MoveServo_Up ==
    /\ pc = "ms_up"
    /\ IF UpContinues(pos, targetPosition)
       THEN /\ WriteAndDelay(pos)
            /\ pos' = pos + 1
            /\ UNCHANGED pc
       ELSE /\ pc' = ret
            /\ UNCHANGED << servoPos, writes, elapsed, cb, pos >>
    /\ UNCHANGED << ret, isServoOpen, currentPosition, targetPosition, wifi,
                    connected, subscribed, msg, messageTemp, prev, rc >>
    /\ UNCHANGED unrouted

\* One iteration of the downward loop, or its exit and the return.
MoveServo_Down ==
    /\ pc = "ms_down"
    /\ IF DownContinues(pos, targetPosition)
       THEN /\ WriteAndDelay(pos)
            /\ pos' = pos - 1
            /\ UNCHANGED pc
       ELSE /\ pc' = ret
            /\ UNCHANGED << servoPos, writes, elapsed, cb, pos >>
    /\ UNCHANGED << ret, isServoOpen, currentPosition, targetPosition, wifi,
                    connected, subscribed, msg, messageTemp, prev, rc >>
    /\ UNCHANGED unrouted

\* moveServo(t) started without being waited for: the caller goes on at r
\* at once.
CallMoveServoNoWait(t, r) ==
    /\ targetPosition' = t
    /\ ret' = r
    /\ pc' = r

\* A call moveServo(t) that returns to position r.
CallMoveServo(t, r) ==
    /\ targetPosition' = t
    /\ ret' = r
    /\ pc' = "ms_read"

----------------------------------------------------------------------------
(* setup and setup_wifi *)

\* setup leaving the latch at the open position.
BootPositionOpen == servoOpenPosition

\* The position setup writes to the servo.
BootPosition == servoClosePosition

\* attach the servo and write the closed position.
Setup_Servo ==
    /\ pc = "setup"
    /\ servoPos' = BootPosition
    /\ pc' = "wifi_begin"
    /\ UNCHANGED << ret, isServoOpen, currentPosition, targetPosition, pos, wifi,
                    connected, subscribed, msg, messageTemp, writes, elapsed,
                    cb, prev, rc >>
    /\ UNCHANGED unrouted

\* WiFi.begin(ssid, password)
SetupWifi_Begin ==
    /\ pc = "wifi_begin"
    /\ wifi' = "connecting"
    /\ pc' = "wifi_wait"
    /\ UNCHANGED << ret, isServoOpen, servoPos, currentPosition, targetPosition,
                    pos, connected, subscribed, msg, messageTemp, writes,
                    elapsed, cb, prev, rc >>
    /\ UNCHANGED unrouted

\* The wait of setup_wifi with its test inverted (== for !=).
WifiWaitContinuesInverted(status) == status = "up"

\* Loop condition of setup_wifi: WiFi.status() != WL_CONNECTED.
WifiWaitContinues(status) == status # "up"

\* while (WiFi.status() != WL_CONNECTED) delay(500);
SetupWifi_Wait ==
    /\ pc = "wifi_wait"
    /\ pc' = IF WifiWaitContinues(wifi) THEN "wifi_wait" ELSE "set_server"
    /\ UNCHANGED << ret, isServoOpen, servoPos, currentPosition, targetPosition,
                    pos, wifi, connected, subscribed, msg, messageTemp, writes,
                    elapsed, cb, prev, rc >>
    /\ UNCHANGED unrouted

\* client.setServer, client.setCallback; setup returns and loop starts.
Setup_Client ==
    /\ pc = "set_server"
    /\ pc' = "loop"
    /\ UNCHANGED << ret, isServoOpen, servoPos, currentPosition, targetPosition,
                    pos, wifi, connected, subscribed, msg, messageTemp, writes,
                    elapsed, cb, prev, rc >>
    /\ UNCHANGED unrouted

----------------------------------------------------------------------------
(* callback *)

\* The String built from the first length bytes of message.
BytesToString(message, length) ==
    [i \in 1..length |-> message[i]]

\* The payload is copied, byte by byte, into messageTemp.
Callback_Copy ==
    /\ pc = "cb_entry"
    /\ messageTemp' = BytesToString(msg.payload, Len(msg.payload))
    /\ pc' = "cb_match"
    /\ UNCHANGED << ret, isServoOpen, servoPos, currentPosition, targetPosition,
                    pos, wifi, connected, subscribed, msg, writes, elapsed, cb,
                    prev, rc >>
    /\ UNCHANGED unrouted

\* The toggle always sweeping to the open position.
ToggleTargetAlwaysOpen(open) == servoOpenPosition

\* The position a toggle sweeps to.
ToggleTarget(open) ==
    IF open THEN servoClosePosition ELSE servoOpenPosition

\* The open branch of the toggle leaving the flag as it was.
FlagAfterStuck(open) == IF open THEN open ELSE TRUE

\* The value the toggle assigns to isServoOpen after its sweep.
FlagAfter(open) == IF open THEN FALSE ELSE TRUE

\* The phrase test and, on a match, the call of moveServo.
Callback_Match ==
    /\ pc = "cb_match"
    /\ IF IsCommand(messageTemp)
       THEN /\ CallMoveServo(ToggleTarget(isServoOpen), "cb_assign")
            /\ cb' = [cb EXCEPT !.targets = Append(@, ToggleTarget(isServoOpen))]
       ELSE /\ pc' = "cb_exit"
            /\ UNCHANGED << ret, targetPosition, cb >>
    /\ UNCHANGED << isServoOpen, servoPos, currentPosition, pos, wifi, connected,
                    subscribed, msg, messageTemp, writes, elapsed, prev, rc >>
    /\ UNCHANGED unrouted

\* isServoOpen = false / isServoOpen = true, after moveServo has returned.
Callback_Assign ==
    /\ pc = "cb_assign"
    /\ isServoOpen' = FlagAfter(isServoOpen)
    /\ cb' = [cb EXCEPT !.flips = IF isServoOpen' # isServoOpen THEN @ + 1 ELSE @]
    /\ pc' = "cb_exit"
    /\ UNCHANGED << ret, servoPos, currentPosition, targetPosition, pos, wifi,
                    connected, subscribed, msg, messageTemp, writes, elapsed,
                    prev, rc >>
    /\ UNCHANGED unrouted

\* Vocabulary of the properties: the payload is, after case folding, one of
\* the trigger phrases.
CaseFold(s) == [i \in 1..Len(s) |-> tolower(s[i])]
IsTrigger(s) == \E p \in TriggerPhrases : CaseFold(s) = p

\* callback returns into client.loop(), which returns into loop().
Callback_Return ==
    /\ pc = "cb_exit"
    /\ pc' = "loop"
    /\ prev' = IF IsTrigger(msg.payload)
               THEN << [startOpen |-> cb.startOpen, targets |-> cb.targets] >>
               ELSE prev
    /\ cb' = NoCallback
    /\ msg' = NoMessage
    /\ messageTemp' = << >>
    /\ UNCHANGED << ret, isServoOpen, servoPos, currentPosition, targetPosition,
                    pos, wifi, connected, subscribed, writes, elapsed, rc >>
    /\ UNCHANGED unrouted

----------------------------------------------------------------------------
(* loop and reconnect *)

\* The test of loop() inverted: reconnect is called while connected.
NeedsReconnectInverted(conn) == conn

\* The test of loop(): reconnect is called when the client is not connected.
NeedsReconnect(conn) == ~conn

\* if (!client.connected()) reconnect();
Loop_Check ==
    /\ pc = "loop"
    /\ IF NeedsReconnect(connected)
       THEN /\ pc' = "rc_while"
            /\ rc' = [NoReconnect EXCEPT !.active = TRUE]
       ELSE /\ pc' = "poll"
            /\ rc' = NoReconnect
    /\ unrouted' = << >>
    /\ UNCHANGED << ret, isServoOpen, servoPos, currentPosition, targetPosition,
                    pos, wifi, connected, subscribed, msg, messageTemp, writes,
                    elapsed, cb, prev >>

\* while (!client.connected()): enter the body, or return to loop().
Reconnect_While ==
    /\ pc = "rc_while"
    /\ pc' = IF ~connected THEN "rc_connect" ELSE "poll"
    /\ UNCHANGED << ret, isServoOpen, servoPos, currentPosition, targetPosition,
                    pos, wifi, connected, subscribed, msg, messageTemp, writes,
                    elapsed, cb, prev, rc >>
    /\ UNCHANGED unrouted

\* A successful connect falling through to the loop test without subscribing.
AfterConnectOKNoSubscribe == "rc_while"

\* Where reconnect goes when client.connect returned true.
AfterConnectOK == "rc_subscribe"

\* A failed connect retried at once, without the delay.
AfterConnectFailNoDelay == "rc_while"

\* reconnect giving up for good after a failed connect.
AfterConnectFailHalt == "halted"

\* Where reconnect goes when client.connect returned false.
AfterConnectFail == "rc_delay"

\* reconnect giving up after one backoff instead of looping.
AfterDelayGiveUp == "poll"

\* Where reconnect goes after the backoff delay: back to the loop test.
AfterDelay == "rc_while"

\* client.connect(...) returns true: a new clean session.
Reconnect_ConnectOK ==
    /\ pc = "rc_connect"
    /\ wifi = "up"
    /\ connected' = TRUE
    /\ subscribed' = {}
    /\ pc' = AfterConnectOK
    /\ rc' = [rc EXCEPT !.last = "ok", !.waits = 0, !.waited = 0, !.subs = 0,
                        !.connects = 1]
    /\ UNCHANGED << ret, isServoOpen, servoPos, currentPosition, targetPosition,
                    pos, wifi, msg, messageTemp, writes, elapsed, cb, prev >>
    /\ UNCHANGED unrouted

\* client.connect(...) returns false.
Reconnect_ConnectFail ==
    /\ pc = "rc_connect"
    /\ pc' = AfterConnectFail
    /\ rc' = [rc EXCEPT !.last = "fail", !.waits = 0, !.waited = 0, !.subs = 0,
                        !.failures = Min(@ + 1, MaxFailures)]
    /\ UNCHANGED << ret, isServoOpen, servoPos, currentPosition, targetPosition,
                    pos, wifi, connected, subscribed, msg, messageTemp, writes,
                    elapsed, cb, prev >>
    /\ UNCHANGED unrouted

\* client.subscribe(mqtt_topic): takes effect if the session is still up.
Reconnect_Subscribe ==
    /\ pc = "rc_subscribe"
    /\ subscribed' = IF connected THEN subscribed \cup {SubscribeFilter}
                                  ELSE subscribed
    /\ rc' = [rc EXCEPT !.subs = @ + 1]
    /\ pc' = "rc_while"
    /\ UNCHANGED << ret, isServoOpen, servoPos, currentPosition, targetPosition,
                    pos, wifi, connected, msg, messageTemp, writes, elapsed, cb,
                    prev >>
    /\ UNCHANGED unrouted

\* delay(5000)
Reconnect_Delay ==
    /\ pc = "rc_delay"
    /\ rc' = [rc EXCEPT !.waits = @ + 1, !.waited = @ + ReconnectDelay]
    /\ pc' = AfterDelay
    /\ UNCHANGED << ret, isServoOpen, servoPos, currentPosition, targetPosition,
                    pos, wifi, connected, subscribed, msg, messageTemp, writes,
                    elapsed, cb, prev >>
    /\ UNCHANGED unrouted

\* client.loop() with nothing to dispatch (or no session): it returns.
Poll_Idle ==
    /\ pc = "poll"
    /\ pc' = "loop"
    /\ rc' = NoReconnect
    /\ UNCHANGED << ret, isServoOpen, servoPos, currentPosition, targetPosition,
                    pos, wifi, connected, subscribed, msg, messageTemp, writes,
                    elapsed, cb, prev >>
    /\ UNCHANGED unrouted

\* client.loop() reads one PUBLISH the broker routed to this session and
\* invokes callback with its topic and payload.
Poll_Dispatch ==
    /\ pc = "poll"
    /\ connected
    /\ \E t \in Topics, p \in Payloads :
          /\ Routed(t)
          /\ msg' = [topic |-> t, payload |-> p]
    /\ cb' = [NoCallback EXCEPT !.active = TRUE, !.startOpen = isServoOpen]
    /\ pc' = "cb_entry"
    /\ rc' = NoReconnect
    /\ UNCHANGED << ret, isServoOpen, servoPos, currentPosition, targetPosition,
                    pos, wifi, connected, subscribed, messageTemp, writes,
                    elapsed, prev >>
    /\ UNCHANGED unrouted

\* A publish the broker does not route to this session (no session, or no
\* filter of the session matches its topic): client.loop() has nothing to
\* read for it and returns.
Poll_Unrouted ==
    /\ pc = "poll"
    /\ \E t \in Topics, p \in Payloads :
          /\ ~(connected /\ Routed(t))
          /\ unrouted' = << [topic |-> t, payload |-> p] >>
    /\ pc' = "loop"
    /\ rc' = NoReconnect
    /\ UNCHANGED << ret, isServoOpen, servoPos, currentPosition, targetPosition,
                    pos, wifi, connected, subscribed, msg, messageTemp, writes,
                    elapsed, cb, prev >>

----------------------------------------------------------------------------
(* Environment *)

\* The access point accepts the association.
WifiAssociated ==
    /\ wifi = "connecting"
    /\ wifi' = "up"
    /\ UNCHANGED << pc, ret, isServoOpen, servoPos, currentPosition,
                    targetPosition, pos, connected, subscribed, msg,
                    messageTemp, writes, elapsed, cb, prev, rc >>
    /\ UNCHANGED unrouted

\* The broker session drops; its subscriptions go with it.
ConnectionLost ==
    /\ connected
    /\ connected' = FALSE
    /\ subscribed' = {}
    /\ UNCHANGED << pc, ret, isServoOpen, servoPos, currentPosition,
                    targetPosition, pos, wifi, msg, messageTemp, writes,
                    elapsed, cb, prev, rc >>
    /\ UNCHANGED unrouted

----------------------------------------------------------------------------
(* The program *)

Program ==
    \/ Setup_Servo \/ SetupWifi_Begin \/ SetupWifi_Wait \/ Setup_Client
    \/ Loop_Check
    \/ Reconnect_While \/ Reconnect_ConnectOK \/ Reconnect_ConnectFail
    \/ Reconnect_Subscribe \/ Reconnect_Delay
    \/ Poll_Idle \/ Poll_Dispatch \/ Poll_Unrouted
    \/ Callback_Copy \/ Callback_Match \/ Callback_Assign \/ Callback_Return
    \/ MoveServo_Read \/ MoveServo_Up \/ MoveServo_Down

Next ==
    \/ Setup_Servo \/ SetupWifi_Begin \/ SetupWifi_Wait \/ Setup_Client
    \/ Loop_Check
    \/ Reconnect_While \/ Reconnect_ConnectOK \/ Reconnect_ConnectFail
    \/ Reconnect_Subscribe \/ Reconnect_Delay
    \/ Poll_Idle \/ Poll_Dispatch \/ Poll_Unrouted
    \/ Callback_Copy \/ Callback_Match \/ Callback_Assign \/ Callback_Return
    \/ MoveServo_Read \/ MoveServo_Up \/ MoveServo_Down
    \/ WifiAssociated \/ ConnectionLost

Spec == Init /\ [][Next]_vars

----------------------------------------------------------------------------
(* moveServo on its own: any start position, any target *)

SweepInit ==
    /\ pc = "idle"
    /\ ret = "none"
    /\ isServoOpen = FALSE
    /\ servoPos \in 0..MaxAngle
    /\ currentPosition = NoPosition
    /\ targetPosition = NoPosition
    /\ pos = NoPosition
    /\ wifi = "idle"
    /\ connected = FALSE
    /\ subscribed = {}
    /\ msg = NoMessage
    /\ messageTemp = << >>
    /\ writes = << >>
    /\ elapsed = 0
    /\ cb = NoCallback
    /\ prev = << >>
    /\ unrouted = << >>
    /\ rc = NoReconnect

\* A caller invokes moveServo(t).
Sweep_Call ==
    /\ pc \in {"idle", "sweep_done"}
    /\ \E t \in 0..MaxAngle : CallMoveServo(t, "sweep_done")
    /\ UNCHANGED << isServoOpen, servoPos, currentPosition, pos, wifi, connected,
                    subscribed, msg, messageTemp, writes, elapsed, cb, prev, rc >>
    /\ UNCHANGED unrouted

SweepNext ==
    \/ Sweep_Call
    \/ MoveServo_Read \/ MoveServo_Up \/ MoveServo_Down

SweepSpec == SweepInit /\ [][SweepNext]_vars

----------------------------------------------------------------------------
(* Properties of callback and moveServo *)

\* The positions a, a+1, ..., b.
Ascending(a, b) == [i \in 1..(b - a + 1) |-> a + i - 1]

\* The positions a, a-1, ..., b.
Descending(a, b) == [i \in 1..(a - b + 1) |-> a - i + 1]

\* C1: when callback returns from a payload that is, after case folding, one
\* of the three trigger phrases, isServoOpen has been flipped exactly once
\* and moveServo has been invoked exactly once.
C1_TriggerTogglesOnce ==
    (pc = "cb_exit" /\ IsTrigger(msg.payload)) =>
        /\ cb.flips = 1
        /\ Len(cb.targets) = 1
        /\ isServoOpen = ~cb.startOpen

\* A mixed-case trigger payload has been handled and callback is returning.
C1_Witness ==
    /\ pc = "cb_exit"
    /\ IsTrigger(msg.payload)
    /\ msg.payload \notin TriggerPhrases
    /\ msg.payload # WithCase(CaseFold(msg.payload), 1..MaxPhraseLen)
    /\ cb.flips = 1

\* C2: throughout a callback invocation whose payload is not, after case
\* folding, exactly one of the trigger phrases, isServoOpen keeps the value
\* it had on entry, moveServo is not called and no position is written.
C2_OtherPayloadIgnored ==
    (cb.active /\ ~IsTrigger(msg.payload)) =>
        /\ isServoOpen = cb.startOpen
        /\ cb.flips = 0
        /\ cb.targets = << >>
        /\ cb.writes = << >>
        /\ pc \in {"cb_entry", "cb_match", "cb_exit"}

\* callback is returning from the payload "halloween 2".
C2_Witness ==
    /\ pc = "cb_exit"
    /\ msg.payload = Halloween2
    /\ cb.writes = << >>

\* C3: when moveServo(target) returns, having read current from the servo,
\* its writes are current, current +/- 1, ..., target: the first is current,
\* the last is target, consecutive writes differ by exactly 1 in the
\* direction of target, and there is a single write when target = current.
C3_SweepIsMonotonicUnitSteps ==
    (pc \in {"sweep_done", "cb_assign"}) =>
        /\ Len(writes) >= 1
        /\ writes[1] = currentPosition
        /\ writes[Len(writes)] = targetPosition
        /\ \A i \in 1..(Len(writes) - 1) :
              writes[i + 1] - writes[i] =
                  (IF targetPosition > currentPosition THEN 1 ELSE -1)
        /\ (targetPosition = currentPosition => writes = << currentPosition >>)
        /\ servoPos = targetPosition

\* An upward sweep over more than two positions has returned.
C3_Witness ==
    /\ pc = "sweep_done"
    /\ targetPosition > currentPosition + 1
    /\ writes = Ascending(currentPosition, targetPosition)

\* C4: a matching command handled in the closed state writes exactly
\* 30, 31, ..., 140 and leaves isServoOpen true; one handled in the open
\* state writes exactly 140, 139, ..., 30 and leaves isServoOpen false.
C4_ToggleSweepsBetweenEndpoints ==
    (pc = "cb_exit" /\ IsTrigger(msg.payload)) =>
        IF cb.startOpen
        THEN cb.writes = Descending(140, 30) /\ isServoOpen = FALSE
        ELSE cb.writes = Ascending(30, 140) /\ isServoOpen = TRUE

\* A matching command handled in the open state is returning.
C4_Witness ==
    /\ pc = "cb_exit"
    /\ IsTrigger(msg.payload)
    /\ cb.startOpen
    /\ cb.writes = Descending(140, 30)
    /\ ~isServoOpen

\* C5: when the second of two consecutive matching commands returns,
\* isServoOpen has the value it had before the first, and the two commands
\* called moveServo exactly twice: with (open, close) when the first started
\* closed, with (close, open) when it started open.
C5_PairRestoresState ==
    (pc = "cb_exit" /\ IsTrigger(msg.payload) /\ prev # << >>) =>
        /\ isServoOpen = prev[1].startOpen
        /\ prev[1].targets \o cb.targets =
              IF prev[1].startOpen
              THEN << servoClosePosition, servoOpenPosition >>
              ELSE << servoOpenPosition, servoClosePosition >>

\* The second command of a pair that started in the open state is returning.
C5_Witness ==
    /\ pc = "cb_exit"
    /\ IsTrigger(msg.payload)
    /\ prev # << >>
    /\ prev[1].startOpen
    /\ isServoOpen

----------------------------------------------------------------------------
(* Properties of reconnect and loop *)

SetupPositions == {"setup", "wifi_begin", "wifi_wait", "set_server"}
ReconnectPositions == {"rc_while", "rc_connect", "rc_subscribe", "rc_delay"}

\* This step is the return of reconnect into loop().
ReconnectReturns ==
    pc \in ReconnectPositions /\ pc' \notin ReconnectPositions

\* C6: reconnect returns only on success.  At every return of reconnect the
\* client is connected, the most recent connect attempt of this invocation
\* succeeded, a subscribe was issued after it, and the session holds the
\* configured topic; however many attempts failed before, a failed attempt
\* is never the last one.
C6_ReconnectReturnsOnlyOnSuccess ==
    [][ ReconnectReturns =>
            /\ connected'
            /\ rc'.last = "ok"
            /\ rc'.subs = 1
            /\ mqtt_topic \in subscribed'
            /\ pc' = "poll" ]_vars

\* reconnect has just returned after as many failed attempts as are counted.
C6_Witness ==
    /\ pc = "poll"
    /\ rc.active
    /\ rc.failures = MaxFailures
    /\ rc.last = "ok"
    /\ connected
    /\ mqtt_topic \in subscribed

\* C7: inside reconnect, a failed connect attempt is followed by exactly one
\* wait of 5000 time units before the loop test and the next attempt, and by
\* no subscribe; a successful attempt is followed by exactly one subscribe
\* and by no wait.
C7_BackoffAfterFailureOnly ==
    rc.active =>
        /\ rc.last = "none" => (rc.waits = 0 /\ rc.subs = 0)
        /\ rc.last = "fail" =>
              /\ pc \in {"rc_delay", "rc_while", "rc_connect"}
              /\ rc.waits = (IF pc = "rc_delay" THEN 0 ELSE 1)
              /\ rc.waited = 5000 * rc.waits
              /\ rc.subs = 0
        /\ rc.last = "ok" =>
              /\ pc \in {"rc_subscribe", "rc_while", "rc_connect", "poll"}
              /\ rc.subs = (IF pc = "rc_subscribe" THEN 0 ELSE 1)
              /\ rc.waits = 0
              /\ rc.waited = 0

\* A second attempt is about to be made, one backoff after a failed one.
C7_Witness ==
    /\ pc = "rc_connect"
    /\ rc.last = "fail"
    /\ rc.failures >= 2
    /\ rc.waits = 1
    /\ rc.waited = 5000

\* The session is up and holds the configured topic.
ConnectedSubscribed == connected /\ mqtt_topic \in subscribed

\* The subscribe of reconnect reaching the broker on a live session.
SubscribeAccepted == Reconnect_Subscribe /\ connected

\* The main loop keeps running, the broker accepts a connect attempt again
\* and again, and a session lasts until its subscribe again and again.
LiveSpec ==
    /\ Spec
    /\ WF_vars(Program)
    /\ SF_vars(Reconnect_ConnectOK)
    /\ SF_vars(SubscribeAccepted)

C9_TwoClientStates ==
    /\ pc \in SetupPositions => ~connected
    /\ ~connected => subscribed = {}
    /\ (connected /\ pc \notin ReconnectPositions) => subscribed = {mqtt_topic}

\* poll is about to run on a connected and subscribed session.
C9_Witness ==
    /\ pc = "poll"
    /\ connected
    /\ subscribed = {mqtt_topic}

\* This step writes a servo position or changes isServoOpen.
ActuatorChanges ==
    \/ isServoOpen' # isServoOpen
    \/ servoPos' # servoPos
    \/ Len(writes') > Len(writes)

\* C10: a publish on a topic other than the configured one never reaches
\* callback, whatever its payload: the step that takes it leaves isServoOpen
\* and the servo alone, every callback invocation is for the configured
\* topic, and after setup every servo write and every change of isServoOpen
\* happens inside such an invocation.
C10_OtherTopicIgnored ==
    [][ /\ (unrouted' # unrouted /\ unrouted' # << >>) => ~ActuatorChanges
        /\ cb'.active => msg'.topic = mqtt_topic
        /\ (ActuatorChanges /\ pc # "setup") =>
              (cb.active /\ msg.topic = mqtt_topic) ]_vars

\* A trigger phrase published on the other topic, while the session was up
\* and subscribed, has just been passed over without a callback.
C10_Witness ==
    /\ pc = "loop"
    /\ connected
    /\ subscribed = {mqtt_topic}
    /\ unrouted # << >>
    /\ unrouted[1].topic = OtherTopic
    /\ IsTrigger(unrouted[1].payload)
    /\ ~cb.active

----------------------------------------------------------------------------
(* Properties of the bootstrap and of the main loop *)

WifiPositions == {"wifi_begin", "wifi_wait"}
SweepPositions == {"ms_read", "ms_up", "ms_down"}
CallbackPositions == {"cb_entry", "cb_match", "cb_assign", "cb_exit"}

\* Positions at which the broker is connected to, subscribed to or polled,
\* or a message is being handled.
MessagingPositions ==
    ReconnectPositions \cup {"poll"} \cup CallbackPositions \cup SweepPositions

\* C11: the bootstrap runs once and before any messaging.  setup_wifi is
\* entered only from setup, is never re-entered once left, and is left only
\* with the link up; at every connect attempt, subscribe, poll and callback
\* the link has been reported up, and no session exists before that.
C11_BootstrapOnceBeforeMessaging ==
    /\ [](pc \in MessagingPositions \cup {"set_server", "loop"} => wifi = "up")
    /\ [](wifi # "up" => (~connected /\ subscribed = {} /\ ~cb.active))
    /\ [][ /\ pc' = "wifi_begin" => pc \in {"setup", "wifi_begin"}
           /\ pc' = "wifi_wait" => pc \in WifiPositions
           /\ pc' = "setup" => pc = "setup"
           /\ (pc \in WifiPositions /\ pc' \notin WifiPositions) =>
                 (wifi = "up" /\ pc' = "set_server") ]_vars

\* The first connect attempt is about to be made, with the link up.
C11_Witness ==
    /\ pc = "rc_connect"
    /\ wifi = "up"
    /\ rc.last = "none"
    /\ prev = << >>

\* C12: a sweep blocks the loop.  In the sketch a sweep only runs inside a
\* callback; while it runs the thread of control stays in moveServo until it
\* returns to the assignment of isServoOpen: no message is dispatched (the
\* callback and its message stay the same), no connectivity check, connect
\* attempt or subscribe happens, and isServoOpen is not touched.  The flag is
\* assigned only once the sweep has written its target, and the next message
\* is dispatched only from poll, with no callback running and the flag
\* agreeing with the position the servo was left at.
C12_SweepBlocksLoop ==
    /\ [](pc \in SweepPositions => (cb.active /\ ret = "cb_assign" /\ ~rc.active))
    /\ [][ /\ pc \in SweepPositions =>
                /\ pc' \in SweepPositions \cup {"cb_assign"}
                /\ msg' = msg
                /\ messageTemp' = messageTemp
                /\ cb'.active
                /\ cb'.startOpen = cb.startOpen
                /\ cb'.targets = cb.targets
                /\ isServoOpen' = isServoOpen
                /\ rc' = rc
                /\ unrouted' = unrouted
                /\ (connected' => connected)
                /\ subscribed' \subseteq subscribed
           /\ isServoOpen' # isServoOpen =>
                /\ pc = "cb_assign"
                /\ Len(writes) >= 1
                /\ writes[Len(writes)] = targetPosition
                /\ servoPos = targetPosition
           /\ (cb'.active /\ ~cb.active) =>
                /\ pc = "poll"
                /\ isServoOpen = (servoPos = servoOpenPosition)
                /\ servoPos \in {servoClosePosition, servoOpenPosition} ]_vars

\* The session was lost in the middle of a sweep, and the sweep goes on.
C12_Witness ==
    /\ pc = "ms_up"
    /\ cb.active
    /\ ~connected
    /\ Len(writes) > 1
    /\ servoPos < targetPosition

\* C13: isServoOpen is false from boot to the end of setup, and a step
\* changes it only if that step is the assignment in callback, made while
\* handling a payload that is a trigger phrase; every other step of the
\* program and of the environment leaves it as it is.
C13_FlagChangedOnlyByMatchingCallback ==
    /\ [](pc \in SetupPositions => isServoOpen = FALSE)
    /\ [][ isServoOpen' # isServoOpen =>
              /\ pc = "cb_assign"
              /\ cb.active
              /\ IsTrigger(msg.payload)
              /\ IsTrigger(messageTemp) ]_vars

\* The latch is open while reconnect sits in a backoff after a failed
\* attempt: the session was lost and retried without the flag changing.
C13_Witness ==
    /\ isServoOpen
    /\ pc = "rc_delay"
    /\ rc.failures >= 1
    /\ prev # << >>

ProgramPositions ==
    SetupPositions \cup {"loop"} \cup MessagingPositions

\* C14: the process has no terminal state.  In every reachable state the
\* thread of control is at a position of setup, loop, reconnect, callback or
\* moveServo and has a next step to take (a wait that finds nothing new is
\* a step too), and the client is either disconnected, holding no
\* subscription, or connected.
C14_NoTerminalState ==
    /\ pc \in ProgramPositions
    /\ ENABLED Program
    /\ connected \in BOOLEAN
    /\ (~connected => subscribed = {})

\* Deep in the retry loop, latch open, after as many failures as are counted.
C14_Witness ==
    /\ pc = "rc_delay"
    /\ rc.failures = MaxFailures
    /\ isServoOpen
    /\ ENABLED Program

----------------------------------------------------------------------------
(* Properties of the servo positions *)

Abs(n) == IF n < 0 THEN -n ELSE n

\* moveServo on its own, with the thread of control kept running.
SweepLiveSpec ==
    /\ SweepSpec
    /\ WF_vars(MoveServo_Read \/ MoveServo_Up \/ MoveServo_Down)

\* C15: every sweep runs to completion.  A moveServo call that has started
\* eventually returns; when it returns it has made exactly
\* |target - current| + 1 writes; and every write made so far has been
\* followed by one delay of 20 time units.
C15_SweepTerminatesWithExactWrites ==
    /\ [](elapsed = 20 * Len(writes))
    /\ [](pc \in {"sweep_done", "cb_assign"} =>
             Len(writes) = Abs(targetPosition - currentPosition) + 1)
    /\ (pc \in SweepPositions ~> pc = "sweep_done")

\* A downward sweep over more than two positions has returned.
C15_Witness ==
    /\ pc = "sweep_done"
    /\ currentPosition > targetPosition + 1
    /\ Len(writes) = currentPosition - targetPosition + 1
    /\ elapsed = 20 * Len(writes)

\* The position isServoOpen stands for.
EndpointOf(open) == IF open THEN 140 ELSE 30

\* C16 as stated: after the write of setup, in every state in which no
\* sweep is in progress, the last written position is 140 if isServoOpen is
\* true and 30 if it is false.
C16_AsStated ==
    (pc # "setup" /\ pc \notin SweepPositions) =>
        servoPos = EndpointOf(isServoOpen)

\* C16: after the write of setup, in every state in which no sweep is in
\* progress and no finished sweep still awaits the assignment of isServoOpen
\* that follows it in callback, the last written position is 140 if
\* isServoOpen is true and 30 if it is false; at the end of setup it is 30
\* and isServoOpen is false.
C16_FlagReflectsEndpoint ==
    /\ (pc # "setup" /\ pc \notin SweepPositions \cup {"cb_assign"}) =>
          servoPos = EndpointOf(isServoOpen)
    /\ pc \in SetupPositions \ {"setup"} => (servoPos = 30 /\ ~isServoOpen)
    /\ pc = "cb_assign" => servoPos = EndpointOf(~isServoOpen)

\* The latch was opened by an earlier command and the loop is polling.
C16_Witness ==
    /\ pc = "poll"
    /\ isServoOpen
    /\ servoPos = 140
    /\ prev # << >>

\* Every element of the sequence w lies in lo..hi.
AllWithin(w, lo, hi) == \A i \in 1..Len(w) : lo <= w[i] /\ w[i] <= hi

\* C17: every position written to the servo, by setup or by any sweep, lies
\* in 30..140 (and so in the device range 0..180), whatever messages,
\* connection losses and reconnects have occurred.
C17_WritesWithinEndpoints ==
    /\ pc # "setup" => (30 <= servoPos /\ servoPos <= 140)
    /\ AllWithin(writes, 30, 140)
    /\ AllWithin(cb.writes, 30, 140)
    /\ pc \in SweepPositions => (30 <= targetPosition /\ targetPosition <= 140)

\* Half-way down a closing sweep, after an earlier command, session lost.
C17_Witness ==
    /\ pc = "ms_down"
    /\ servoPos = 85
    /\ prev # << >>
    /\ ~connected
    /\ Len(writes) > 1

----------------------------------------------------------------------------
(* Order of the main loop *)

\* C18: each iteration of loop runs check, then reconnect only if the check
\* found the client disconnected, then one poll.  The check leads to poll
\* when connected and into reconnect when not; reconnect is entered only
\* from the check and left only into poll; poll is entered only from the
\* check or from reconnect, dispatches at most one message and then leads
\* back to the check.  A message is dispatched only from poll on a session
\* that is connected and subscribed to the configured topic, and during
\* setup and reconnect no callback runs and neither the flag nor the servo
\* changes.
C18_LoopOrder ==
    /\ [](pc \in ReconnectPositions \cup SetupPositions => ~cb.active)
    /\ [][ /\ (pc = "loop" /\ pc' # pc) =>
                 pc' = (IF connected THEN "poll" ELSE "rc_while")
           /\ (pc' \in ReconnectPositions /\ pc \notin ReconnectPositions) =>
                 (pc = "loop" /\ ~connected /\ pc' = "rc_while")
           /\ (pc \in ReconnectPositions /\ pc' \notin ReconnectPositions) =>
                 pc' = "poll"
           /\ (pc' = "poll" /\ pc # "poll") =>
                 pc \in {"loop"} \cup ReconnectPositions
           /\ (pc = "poll" /\ pc' # pc) => pc' \in {"loop", "cb_entry"}
           /\ (pc = "cb_exit" /\ pc' # pc) => pc' = "loop"
           /\ (pc' = "loop" /\ pc # "loop") =>
                 pc \in {"set_server", "poll", "cb_exit"}
           /\ (cb'.active /\ ~cb.active) =>
                 (pc = "poll" /\ pc' = "cb_entry" /\ ConnectedSubscribed)
           /\ pc \in ReconnectPositions =>
                 (isServoOpen' = isServoOpen /\ servoPos' = servoPos)
           /\ (ActuatorChanges /\ pc # "setup") => cb.active ]_vars

\* A message has just been dispatched with the latch already open: poll ran
\* on a connected, subscribed session in a later iteration.
C18_Witness ==
    /\ pc = "cb_entry"
    /\ cb.active
    /\ isServoOpen
    /\ ConnectedSubscribed

====
